---- MODULE Spec2Model ----
(***************************************************************************)
(* Model of src/src/infrastructure/proxy/proxy.py: an authenticating HTTP  *)
(* proxy built on http.server.HTTPServer / BaseHTTPRequestHandler and the  *)
(* requests library.                                                       *)
(*                                                                         *)
(* Text is modelled as a sequence of tokens: a secret, a path or a         *)
(* Content-Length value is a sequence of one-character strings, a literal  *)
(* of the program is one multi-character token.  Bodies are sequences of   *)
(* byte tokens.                                                            *)
(***************************************************************************)
EXTENDS Integers, Sequences, FiniteSets, TLC

VARIABLES
    env,        \* module-level configuration read from the environment
    pc,         \* position of main()
    listening,  \* the HTTPServer socket is bound and listening
    exitCode,   \* process exit code, -1 while the process runs
    stdout,     \* lines printed by main()
    pending,    \* connections waiting in the listen backlog
    stage,      \* the single handler: "idle", "upstream" or "done"
    request,    \* inbound request being (or last) handled
    outbound,   \* outbound calls made for that request
    upstream,   \* what the outbound call produced
    written,    \* responses written to the client for that request
    raised      \* exception that escaped the handler ("" if none)

vars == <<env, pc, listening, exitCode, stdout, pending, stage, request,
          outbound, upstream, written, raised>>

----------------------------------------------------------------------------
(* Bounds *)

MaxPending == 2

----------------------------------------------------------------------------
(* Text helpers *)

Min(a, b) == IF a < b THEN a ELSE b

\* Python slice s[:n]
Prefix(s, n) == SubSeq(s, 1, Min(n, Len(s)))

\* Python "sub in s" on token sequences
Contains(s, sub) ==
    \E i \in 0..(Len(s) - Len(sub)) : SubSeq(s, i + 1, i + Len(sub)) = sub

Repeat(c, n) == [i \in 1..n |-> c]

\* An optional value: os.getenv() / headers.get() returning None or a string
None == [set |-> FALSE, val |-> <<>>]
Some(v) == [set |-> TRUE, val |-> v]

\* Python truthiness of an optional string
Truthy(v) == v.set /\ v.val # <<>>

----------------------------------------------------------------------------
(* Configuration, lines 13-18 *)

HF_API_BASE == <<"https://hackforums.net/api/v2">>

ClientIdPrefixLen == 20
ApiKeyPrefixLen == 8
UpstreamTimeout == 30

ClientIdValues ==
    {None, Some(<<>>), Some(<<"i", "d">>),
     Some(Repeat("i", ClientIdPrefixLen + 1))}

ClientSecretValues == {None, Some(<<"s">>)}

ApiKeyValues ==
    {None, Some(<<>>), Some(<<"k", "e", "y">>),
     Some(Repeat("k", ApiKeyPrefixLen + 1))}

Environments ==
    [HF_CLIENT_ID : ClientIdValues,
     HF_CLIENT_SECRET : ClientSecretValues,
     PROXY_API_KEY : ApiKeyValues]

HF_CLIENT_ID == env.HF_CLIENT_ID
HF_CLIENT_SECRET == env.HF_CLIENT_SECRET
PROXY_API_KEY == env.PROXY_API_KEY

----------------------------------------------------------------------------
(* Inbound requests *)

Methods == {"GET", "POST", "PUT"}

Paths ==
    {<<"/", "a", "?", "q">>,
     <<"/", "a", "%", "2", "0">>}

\* Bytes the client sends after the request headers
Bodies == {<<>>, <<"x">>, <<"x", "y">>}

DigitChars == <<"0", "1", "2", "3", "4", "5", "6", "7", "8", "9">>

IsDigit(c) == \E i \in 1..10 : DigitChars[i] = c
DigitVal(c) == (CHOOSE i \in 1..10 : DigitChars[i] = c) - 1

\* Decimal text of a one-digit natural number
Decimal(n) == <<DigitChars[n + 1]>>

\* Content-Length header values a client may send ahead of the bytes b
ContentLengthValues(b) ==
    {None, Some(<<"-", "1">>), Some(<<"1", "x">>)}
        \cup {Some(Decimal(n)) : n \in 1..Len(b)}

\* X-API-Key header values a client may send
ApiKeyHeaderValues ==
    {None, PROXY_API_KEY, Some(Prefix(PROXY_API_KEY.val, Len(PROXY_API_KEY.val) - 1))}

AuthorizationValues == {None, Some(<<"Bearer ", "c">>)}

RequestsWith(b) ==
    [method : Methods, path : Paths, xApiKey : ApiKeyHeaderValues,
     contentLength : ContentLengthValues(b), authorization : AuthorizationValues,
     rfile : {b}]

Requests == UNION {RequestsWith(b) : b \in Bodies}

NoRequest ==
    [method |-> "", path |-> <<>>, xApiKey |-> None, contentLength |-> None,
     authorization |-> None, rfile |-> <<>>]

----------------------------------------------------------------------------
(* Python built-ins used by the handler *)

\* int(s) on a header value: an optional sign followed by decimal digits;
\* anything else raises ValueError (ok = FALSE)
RECURSIVE DigitsValue(_)
DigitsValue(s) ==
    IF s = <<>> THEN 0
    ELSE 10 * DigitsValue(SubSeq(s, 1, Len(s) - 1)) + DigitVal(s[Len(s)])

ParseInt(s) ==
    LET signed == Len(s) > 0 /\ s[1] \in {"-", "+"}
        digits == IF signed THEN Tail(s) ELSE s
        ok     == Len(digits) > 0 /\ \A i \in 1..Len(digits) : IsDigit(digits[i])
    IN  [ok  |-> ok,
         val |-> IF ~ok THEN 0
                 ELSE IF signed /\ s[1] = "-" THEN 0 - DigitsValue(digits)
                 ELSE DigitsValue(digits)]

\* "format % ()" of log_message: "%%" is a literal percent sign, any other
\* "%" is a conversion with no argument to fill it and raises
RECURSIVE PercentRaises(_, _)
PercentRaises(s, i) ==
    IF i > Len(s) THEN FALSE
    ELSE IF s[i] # "%" THEN PercentRaises(s, i + 1)
    ELSE IF i < Len(s) /\ s[i + 1] = "%" THEN PercentRaises(s, i + 2)
    ELSE TRUE

\* rfile.read(n) when the client has sent at least n bytes
Read(rfile, n) == Prefix(rfile, n)

\* str.lower() on the header names that occur
Lower(h) ==
    CASE h = "Transfer-Encoding" -> "transfer-encoding"
      [] h = "CONNECTION"        -> "connection"
      [] h = "Connection"        -> "connection"
      [] h = "Content-Encoding"  -> "content-encoding"
      [] h = "Content-Type"      -> "content-type"
      [] h = "Set-Cookie"        -> "set-cookie"
      [] h = "set-cookie"        -> "set-cookie"
      [] h = "X-Foo"             -> "x-foo"
      [] h = "Server"            -> "server"
      [] h = "Date"              -> "date"
      [] OTHER                   -> h

----------------------------------------------------------------------------
(* Responses written to the client *)

\* send_response() of BaseHTTPRequestHandler emits the status line and the
\* Server and Date headers; the handler adds headers and the body
ServerHeaders == << <<"Server", <<"BaseHTTP">> >>, <<"Date", <<"now">> >> >>

Response(status, headers, body) ==
    [status |-> status, headers |-> ServerHeaders \o headers, body |-> body]

InvalidApiKeyBody == << "{\"error\": \"Invalid API key\"}" >>
BadGatewayBody == << "{\"error\": \"Bad Gateway\"}" >>
MethodNotAllowedBody == << "Method Not Allowed" >>

InvalidApiKeyResponse ==
    Response(401, << <<"Content-Type", <<"application/json">> >> >>, InvalidApiKeyBody)

MethodNotAllowedResponse ==
    Response(405, << <<"Content-Type", <<"text/plain">> >> >>, MethodNotAllowedBody)

\* Variant whose body carries the exception text
BadGatewayResponseLeaky(e) ==
    Response(502, << <<"Content-Type", <<"application/json">> >> >>,
             BadGatewayBody \o <<e>>)

BadGatewayResponse(e) ==
    Response(502, << <<"Content-Type", <<"application/json">> >> >>, BadGatewayBody)

\* send_error(501) of BaseHTTPRequestHandler.handle_one_request for a command
\* with no do_<command> method; the HTML body is omitted for HEAD
NotImplementedResponse(command) ==
    Response(501,
             << <<"Connection", <<"close">> >>,
                <<"Content-Type", <<"text/html;charset=utf-8">> >> >>,
             IF command = "HEAD" THEN <<>> ELSE << "<html>Unsupported method</html>" >>)

----------------------------------------------------------------------------
(* The outbound call and the requests library *)

\* Variant that passes the caller's Authorization header through
OutboundHeadersPassthrough(req) ==
    << <<"Authorization",
         IF req.authorization.set THEN req.authorization.val
         ELSE <<"Bearer ">> \o HF_CLIENT_ID.val>>,
       <<"Content-Type", <<"application/json">> >> >>

\* headers = {"Authorization": f"Bearer {HF_CLIENT_ID}", "Content-Type": ...}
OutboundHeaders(req) ==
    << <<"Authorization", <<"Bearer ">> \o HF_CLIENT_ID.val>>,
       <<"Content-Type", <<"application/json">> >> >>

\* Transport-level failures of requests.get / requests.post, all of them
\* subclasses of requests.RequestException
TransportErrors == {"ConnectionError", "Timeout", "SSLError"}

\* str(e) of a transport failure names the URL that was requested
ErrorMessage(e, url) == <<e, ": ">> \o url

\* Bytes on the wire of a gzip-encoded body
GzipMagic == "1f8b"
Gzip(b) == <<GzipMagic>> \o b

UpstreamStatuses == {201, 404, 500}

UpstreamHeaderLists ==
    { << <<"X-Foo", <<"bar">> >> >>,
      << <<"X-Foo", <<"bar">> >>, <<"Transfer-Encoding", <<"chunked">> >> >>,
      << <<"CONNECTION", <<"close">> >>, <<"X-Foo", <<"bar">> >> >>,
      << <<"Set-Cookie", <<"a=1">> >>, <<"set-cookie", <<"b=2">> >> >>,
      << <<"Content-Encoding", <<"gzip">> >> >> }

\* Bodies the upstream sends under a header list: gzip bytes when it
\* declares Content-Encoding: gzip, plain bytes otherwise
UpstreamBodies(hs) ==
    IF \E i \in 1..Len(hs) : hs[i][1] = "Content-Encoding"
    THEN {<<>>, Gzip(<<"x">>)}
    ELSE {<<>>, <<"x">>}

\* Responses the upstream can put on the wire
UpstreamResponses ==
    UNION {[status : UpstreamStatuses, headers : {hs}, body : UpstreamBodies(hs)] :
               hs \in UpstreamHeaderLists}

NoUpstream == [kind |-> "none", status |-> 0, headers |-> <<>>, body |-> <<>>, error |-> ""]

\* response.headers: a case-insensitive mapping with one entry per header
\* name, keyed by the first spelling received, the values of a repeated name
\* joined with ", "
RECURSIVE JoinValues(_, _, _)
JoinValues(hs, name, i) ==
    IF i > Len(hs) THEN <<>>
    ELSE LET rest == JoinValues(hs, name, i + 1)
         IN  IF Lower(hs[i][1]) # Lower(name) THEN rest
             ELSE IF rest = <<>> THEN hs[i][2]
             ELSE hs[i][2] \o <<", ">> \o rest

RECURSIVE MergeFrom(_, _)
MergeFrom(hs, i) ==
    IF i > Len(hs) THEN <<>>
    ELSE IF \E j \in 1..(i - 1) : Lower(hs[j][1]) = Lower(hs[i][1])
         THEN MergeFrom(hs, i + 1)
         ELSE << <<hs[i][1], JoinValues(hs, hs[i][1], i)>> >> \o MergeFrom(hs, i + 1)

ResponseHeaders(hs) == MergeFrom(hs, 1)

\* response.content: the body after requests undoes the Content-Encoding;
\* a body that is not valid gzip raises ContentDecodingError
ContentEncoded(hs) ==
    \E i \in 1..Len(hs) : Lower(hs[i][1]) = "content-encoding" /\ hs[i][2] = <<"gzip">>

ResponseContent(hs, body) ==
    IF ~ContentEncoded(hs) \/ body = <<>> THEN [ok |-> TRUE, content |-> body]
    ELSE IF body[1] = GzipMagic THEN [ok |-> TRUE, content |-> Tail(body)]
    ELSE [ok |-> FALSE, content |-> <<>>]

----------------------------------------------------------------------------
(* ProxyHandler *)

HopByHopHeaders == {"transfer-encoding", "connection"}

Result(kind, responses, calls, exc) ==
    [kind |-> kind, written |-> responses, calls |-> calls, raised |-> exc]

\* _validate_api_key: headers.get("X-API-Key", "") compared with PROXY_API_KEY
ValidateApiKey(req) ==
    LET api_key == IF req.xApiKey.set THEN req.xApiKey ELSE Some(<<>>)
    IN  api_key = PROXY_API_KEY

\* int(self.headers.get("Content-Length", 0))
ContentLength(req) ==
    IF req.contentLength.set THEN ParseInt(req.contentLength.val)
    ELSE [ok |-> TRUE, val |-> 0]

\* _proxy_request up to the outbound call: the responses written, the call
\* issued and the exception that escapes, if any
ProxyRequest(method, req) ==
    IF ~ValidateApiKey(req) THEN Result("done", <<InvalidApiKeyResponse>>, <<>>, "")
    ELSE
    LET url            == HF_API_BASE \o req.path
        headers        == OutboundHeaders(req)
        content_length == ContentLength(req)
        body           == IF content_length.val > 0
                          THEN Read(req.rfile, content_length.val) ELSE <<>>
        call(data)     == [method |-> method, url |-> url, headers |-> headers,
                           data |-> data, timeout |-> UpstreamTimeout]
    IN  IF PercentRaises(<<"Proxying ", method, " ">> \o url, 1)
            THEN Result("done", <<>>, <<>>, "TypeError")
        ELSE IF ~content_length.ok
            THEN Result("done", <<>>, <<>>, "ValueError")
        ELSE IF method = "GET"
            THEN Result("call", <<>>, <<call(<<>>)>>, "")
        ELSE IF method = "POST"
            THEN Result("call", <<>>, <<call(body)>>, "")
        ELSE Result("done", <<MethodNotAllowedResponse>>, <<>>, "")

\* handle_one_request of BaseHTTPRequestHandler: dispatch to do_<command>,
\* of which the handler defines do_GET and do_POST
HandleOneRequest(req) ==
    IF req.method = "GET" THEN ProxyRequest("GET", req)
    ELSE IF req.method = "POST" THEN ProxyRequest("POST", req)
    ELSE Result("done", <<NotImplementedResponse(req.method)>>, <<>>, "")

\* except requests.RequestException as e: log the error, answer 502
ExceptRequestException(e, url) ==
    IF PercentRaises(<<"Error proxying request: ">> \o ErrorMessage(e, url), 1)
    THEN Result("done", <<>>, <<>>, "TypeError")
    ELSE Result("done", <<BadGatewayResponse(e)>>, <<>>, "")

RECURSIVE RelayHeaders(_, _)
RelayHeaders(hs, i) ==
    IF i > Len(hs) THEN <<>>
    ELSE IF Lower(hs[i][1]) \in HopByHopHeaders THEN RelayHeaders(hs, i + 1)
    ELSE <<hs[i]>> \o RelayHeaders(hs, i + 1)

\* The rest of _proxy_request once the upstream has answered with u
RelayResponse(u, url) ==
    LET content == ResponseContent(u.headers, u.body)
    IN  IF ~content.ok THEN ExceptRequestException("ContentDecodingError", url)
        ELSE Result("done",
                    <<Response(u.status, RelayHeaders(ResponseHeaders(u.headers), 1),
                               content.content)>>,
                    <<>>, "")

----------------------------------------------------------------------------
(* main *)

\* Validation that forgets HF_CLIENT_SECRET
MissingConfigWeak ==
    ~(Truthy(HF_CLIENT_ID) /\ Truthy(PROXY_API_KEY))

\* not all([HF_CLIENT_ID, HF_CLIENT_SECRET, PROXY_API_KEY])
MissingConfig ==
    ~(Truthy(HF_CLIENT_ID) /\ Truthy(HF_CLIENT_SECRET) /\ Truthy(PROXY_API_KEY))

SetOrMissing(v) == IF Truthy(v) THEN "set" ELSE "missing"

MissingConfigLines ==
    << <<"ERROR: Missing required environment variables">>,
       <<"HF_CLIENT_ID: ", SetOrMissing(HF_CLIENT_ID)>>,
       <<"HF_CLIENT_SECRET: ", SetOrMissing(HF_CLIENT_SECRET)>>,
       <<"PROXY_API_KEY: ", SetOrMissing(PROXY_API_KEY)>> >>

StartupLines ==
    << <<"Starting HackForums API proxy on port ", "PORT">>,
       <<"HF Client ID: ">> \o Prefix(HF_CLIENT_ID.val, ClientIdPrefixLen) \o <<"...">>,
       <<"Proxy API Key: ">> \o Prefix(PROXY_API_KEY.val, ApiKeyPrefixLen) \o <<"...">> >>

Init ==
    /\ env \in Environments
    /\ pc = "validate"
    /\ listening = FALSE
    /\ exitCode = -1
    /\ stdout = <<>>
    /\ pending = 0
    /\ stage = "idle"
    /\ request = NoRequest
    /\ outbound = <<>>
    /\ upstream = NoUpstream
    /\ written = <<>>
    /\ raised = ""

handlerVars == <<stage, request, outbound, upstream, written, raised>>

\* main, lines 96-101
MainValidate ==
    /\ pc = "validate"
    /\ IF MissingConfig
       THEN /\ stdout' = MissingConfigLines
            /\ exitCode' = 1
            /\ pc' = "exited"
       ELSE /\ pc' = "bind"
            /\ UNCHANGED <<stdout, exitCode>>
    /\ UNCHANGED <<env, listening, pending, handlerVars>>

\* main, line 104: HTTPServer(...) binds and listens
MainBind ==
    /\ pc = "bind"
    /\ listening' = TRUE
    /\ pc' = "log"
    /\ UNCHANGED <<env, exitCode, stdout, pending, handlerVars>>

\* main, lines 105-107
MainLog ==
    /\ pc = "log"
    /\ stdout' = StartupLines
    /\ pc' = "serve"
    /\ UNCHANGED <<env, listening, exitCode, pending, handlerVars>>

\* A client connects; the connection waits in the backlog of the socket
Connect ==
    /\ listening
    /\ pending < MaxPending
    /\ pending' = pending + 1
    /\ UNCHANGED <<env, pc, listening, exitCode, stdout, handlerVars>>

\* serve_forever: HTTPServer accepts one connection and runs the handler in
\* the same thread, so the next connection is taken only when the handler
\* of the previous one has returned
HandleRequest(req) ==
    /\ pc = "serve"
    /\ stage # "upstream"
    /\ pending > 0
    /\ pending' = pending - 1
    /\ LET r == HandleOneRequest(req)
       IN  /\ request' = req
           /\ stage' = IF r.kind = "call" THEN "upstream" ELSE "done"
           /\ outbound' = r.calls
           /\ written' = r.written
           /\ raised' = r.raised
           /\ upstream' = NoUpstream
    /\ UNCHANGED <<env, pc, listening, exitCode, stdout>>

ServeNext == \E req \in Requests : HandleRequest(req)

\* requests.get / requests.post returns the upstream's response
UpstreamResponds(u) ==
    /\ pc = "serve"
    /\ stage = "upstream"
    /\ LET r == RelayResponse(u, outbound[1].url)
       IN  /\ written' = r.written
           /\ raised' = r.raised
    /\ upstream' = [kind |-> "response", status |-> u.status, headers |-> u.headers,
                    body |-> u.body, error |-> ""]
    /\ stage' = "done"
    /\ UNCHANGED <<env, pc, listening, exitCode, stdout, pending, request, outbound>>

\* requests.get / requests.post raises a transport failure
UpstreamFails(e) ==
    /\ pc = "serve"
    /\ stage = "upstream"
    /\ LET r == ExceptRequestException(e, outbound[1].url)
       IN  /\ written' = r.written
           /\ raised' = r.raised
    /\ upstream' = [NoUpstream EXCEPT !.kind = "error", !.error = e]
    /\ stage' = "done"
    /\ UNCHANGED <<env, pc, listening, exitCode, stdout, pending, request, outbound>>

\* main, lines 111-113: KeyboardInterrupt ends serve_forever
Interrupt ==
    /\ pc = "serve"
    /\ stdout' = Append(stdout, <<"Shutting down proxy server">>)
    /\ listening' = FALSE
    /\ exitCode' = 0
    /\ pc' = "exited"
    /\ UNCHANGED <<env, pending, handlerVars>>

Next ==
    \/ MainValidate
    \/ MainBind
    \/ MainLog
    \/ Connect
    \/ ServeNext
    \/ \E u \in UpstreamResponses : UpstreamResponds(u)
    \/ \E e \in TransportErrors : UpstreamFails(e)
    \/ Interrupt

Spec == Init /\ [][Next]_vars

----------------------------------------------------------------------------
(* Properties *)

\* C1: a request whose X-API-Key header is absent or differs from the shared
\* secret is answered, whatever its method and path, with status 401 and body
\* {"error": "Invalid API key"}, and no outbound call is made for it.
C1_InvalidKeyIs401 ==
    (stage = "done" /\ ~(request.xApiKey.set /\ request.xApiKey = PROXY_API_KEY))
        => /\ Len(written) = 1
           /\ written[1].status = 401
           /\ written[1].body = << "{\"error\": \"Invalid API key\"}" >>
           /\ outbound = <<>>

\* C2: a request with a method outside {GET, POST} is answered with status
\* 405, content-type text/plain and body "Method Not Allowed", and no outbound
\* call is made.  Stated for requests that carry the valid key, where the
\* precedence of the 401 answer does not apply.
C2_OtherMethodIs405 ==
    (stage = "done" /\ request.method \notin {"GET", "POST"}
                    /\ request.xApiKey = PROXY_API_KEY)
        => /\ Len(written) = 1
           /\ written[1].status = 405
           /\ \E i \in 1..Len(written[1].headers) :
                  /\ Lower(written[1].headers[i][1]) = "content-type"
                  /\ written[1].headers[i][2] = <<"text/plain">>
           /\ written[1].body = << "Method Not Allowed" >>
           /\ outbound = <<>>

C4_RelayVerbatim ==
    (stage = "done" /\ upstream.kind = "response")
        => /\ Len(written) = 1
           /\ written[1].status = upstream.status
           /\ \A i \in 1..Len(upstream.headers) :
                  Lower(upstream.headers[i][1]) \notin {"transfer-encoding", "connection"}
                      => \E j \in 1..Len(written[1].headers) :
                             written[1].headers[j] = upstream.headers[i]
           /\ written[1].body = upstream.body

\* C5: every request that has been handled got a response written to the
\* client, and the server goes on to serve the connections that wait.
C5_ErrorsContained ==
    (stage = "done")
        => /\ Len(written) = 1
           /\ (pc = "serve" /\ pending > 0) => ENABLED ServeNext

\* C6: while the outbound call of one request waits for the upstream, a
\* connection that waits in the backlog can be accepted and handled.
C6_NoStall ==
    (pc = "serve" /\ stage = "upstream" /\ pending > 0) => ENABLED ServeNext

\* C7: if a mandatory configuration value is absent the process exits with
\* code 1 and never listens; the listener exists only when all three values
\* were found present.
C7_FailFast ==
    LET absent == \/ ~HF_CLIENT_ID.set
                  \/ ~HF_CLIENT_SECRET.set
                  \/ ~PROXY_API_KEY.set
    IN  /\ absent => ~listening /\ pc \in {"validate", "exited"}
        /\ (absent /\ pc = "exited") => exitCode = 1
        /\ listening => ~absent /\ pc \in {"log", "serve"}

C7_Witness ==
    /\ ~HF_CLIENT_SECRET.set
    /\ Truthy(HF_CLIENT_ID)
    /\ Truthy(PROXY_API_KEY)
    /\ pc = "exited"
    /\ exitCode = 1
    /\ ~listening

\* C8: the outbound call of an authenticated GET or POST uses the inbound
\* method and carries the inbound body: the first Content-Length bytes when
\* the declared length is positive, no bytes otherwise.
C8_BodyForwarded ==
    (outbound # <<>>)
        => /\ outbound[1].method = request.method
           /\ outbound[1].data =
                  IF ContentLength(request).val > 0
                  THEN SubSeq(request.rfile, 1, ContentLength(request).val)
                  ELSE <<>>

C10_SecretsRedacted ==
    (pc = "serve")
        => \A i \in 1..Len(stdout) :
               /\ ~Contains(stdout[i], PROXY_API_KEY.val)
               /\ ~Contains(stdout[i], HF_CLIENT_ID.val)

====
